---- MODULE Spec2Model ----
(***************************************************************************)
(* Marketing attribution dashboard: the data pipeline of generateMockData  *)
(* (first-click attribution, simulated conversions, totalReached) and the  *)
(* filter / aggregation / drill-down state machine of the App component,   *)
(* in its two builds: src/index.tsx (date range, country, device,          *)
(* platform, chart drill-down) and src/unnamed/part_000 (sendCountry,      *)
(* customerType, click-through rate).                                      *)
(*                                                                         *)
(* Encodings.  A user_id `user_${i}` is the integer i.  Time is in         *)
(* milliseconds since 2024-01-01T00:00:00.000Z (MOCK_CONFIG.startDate).    *)
(* A Date object is <<ms>>, the Invalid Date is <<>>.  The value of a date *)
(* input is <<d>> for the string 'YYYY-MM-DD' of the day d days after      *)
(* 2024-01-01, and <<>> for the empty (or any unparseable) string.  A rate *)
(* (a floating point quotient times 100) is the exact fraction             *)
(* [num, den].  chartFilter is <<>> for null and <<[category, value]>>     *)
(* otherwise.                                                              *)
(***************************************************************************)
EXTENDS Integers, Sequences, FiniteSets, TLC

VARIABLES
    version,            \* which build runs: "index" or "part_000"
    tz,                 \* the browser's offset of local time from UTC, in ms
    users,              \* generateMockData: users
    events,             \* generateMockData: events
    pc,                 \* position in generateMockData, "app" once the module is loaded
    attributedClicks,   \* the Map's values in insertion order (clickData)
    transactions,       \* transactions
    totalReached,       \* totalReached
    filters,            \* App: useState filters
    chartFilter,        \* App (index.tsx): useState chartFilter
    last                \* history: the handler of src/index.tsx that ran last

vars == <<version, tz, users, events, pc, attributedClicks, transactions,
          totalReached, filters, chartFilter, last>>

----------------------------------------------------------------------------
(* Bounds of the model *)

\* events per generated stream in the pipeline specification
MaxEvents == 3
\* calendar days (from 2024-01-01) covered by click times and date inputs
NumDays == 2

----------------------------------------------------------------------------
(* Time *)

MinuteMs == 1000 * 60
HourMs == 1000 * 60 * 60
DayMs == 1000 * 60 * 60 * 24

\* the local-time offsets the build may run under: UTC-5, UTC, UTC+5
TzOffsets == {0 - 5 * HourMs, 0, 5 * HourMs}

\* MOCK_CONFIG.startDate = new Date('2024-01-01'), MOCK_CONFIG.endDate = new Date()
MOCK_CONFIG == [startDate |-> 0, endDate |-> NumDays * DayMs - 1]

----------------------------------------------------------------------------
(* String helpers, tabulated on the strings the program handles *)

ClickedNames == {"push_clicked", "popup_clicked", "slider_clicked"}
ReceivedNames == {"push_received", "popup_received", "slider_received"}
EventNames == ReceivedNames \cup ClickedNames

\* event_name.includes(suffix)
Includes(name, suffix) ==
    CASE suffix = "_clicked" -> name \in ClickedNames
      [] suffix = "_received" -> name \in ReceivedNames
      [] OTHER -> FALSE

\* event_name.replace('_clicked', '')
StripClicked(name) ==
    CASE name = "push_clicked" -> "push"
      [] name = "popup_clicked" -> "popup"
      [] name = "slider_clicked" -> "slider"
      [] OTHER -> name

\* s.charAt(0).toUpperCase() + s.slice(1)
Capitalize(s) ==
    CASE s = "push" -> "Push"
      [] s = "popup" -> "Popup"
      [] s = "slider" -> "Slider"
      [] s = "active" -> "Active"
      [] s = "dormant" -> "Dormant"
      [] s = "churned" -> "Churned"
      [] OTHER -> s

\* variant: the case is kept
KeepCase(s) == s

\* s.toLowerCase()
ToLowerCase(s) ==
    CASE s = "Active" -> "active"
      [] s = "Dormant" -> "dormant"
      [] s = "Churned" -> "churned"
      [] s = "Push" -> "push"
      [] s = "Popup" -> "popup"
      [] s = "Slider" -> "slider"
      [] OTHER -> s

----------------------------------------------------------------------------
(* Sequence helpers *)

Range(s) == {s[i] : i \in DOMAIN s}

\* all sequences over S of length 0..n
SeqsUpTo(S, n) == UNION {[1..k -> S] : k \in 0..n}

RECURSIVE SumSeq(_)
SumSeq(s) == IF s = <<>> THEN 0 ELSE Head(s) + SumSeq(Tail(s))

----------------------------------------------------------------------------
(* generateMockData *)

User(i, gender, age, send, receive, ctype, device, platform) ==
    [user_id |-> i, gender |-> gender, age |-> age, send_country |-> send,
     receive_country |-> receive, customer_type |-> ctype,
     device_info |-> device, platform_type |-> platform]

\* the user table of the pipeline specification
BaseUsers ==
    << User(0, "Male", 18, "UK", "Nigeria", "active", "iOS", "app"),
       User(1, "Female", 25, "USA", "India", "dormant", "iOS", "app") >>

\* user tables: outcomes of the loop that draws each user's attributes
UserTables ==
    { BaseUsers,
      << User(0, "Female", 26, "UK", "Pakistan", "churned", "iOS", "app"),
         User(1, "Other", 35, "UK", "Ghana", "active", "Android", "app") >>,
      << User(0, "Other", 36, "Germany", "India", "dormant", "Android", "app"),
         User(1, "Male", 45, "Germany", "Nigeria", "dormant", "Android", "website") >>,
      << User(0, "Male", 46, "France", "Philippines", "churned", "iOS", "website"),
         User(1, "Male", 55, "Canada", "Ghana", "active", "iOS", "website") >>,
      << User(0, "Female", 56, "USA", "Pakistan", "active", "Android", "website"),
         User(1, "Female", 65, "USA", "India", "churned", "iOS", "website") >> }

Event(i, uid, ts, name) ==
    [event_id |-> i, user_id |-> uid, timestamp |-> ts, event_name |-> name]

\* variant: the minimum is not added
randFromZero(min, max, u) == u

\* rand(min, max), with u the value of Math.floor(Math.random() * (max - min + 1))
rand(min, max, u) == u + min

\* Math.floor(Math.random() * n) at the k-th end of the range of Math.random():
\* 0 for Math.random() = 0, n - 1 for Math.random() just below 1
FloorDraw(n, k) == k * (n - 1)

\* variant: an element is inserted in front of the elements of equal timestamp
RECURSIVE InsertBeforeEqual(_, _)
InsertBeforeEqual(e, s) ==
    IF s = <<>> THEN <<e>>
    ELSE IF s[Len(s)].timestamp - e.timestamp < 0
         THEN Append(s, e)
         ELSE Append(InsertBeforeEqual(e, SubSeq(s, 1, Len(s) - 1)), s[Len(s)])

\* stable insertion of e behind every element whose timestamp is not greater
RECURSIVE InsertByTimestamp(_, _)
InsertByTimestamp(e, s) ==
    IF s = <<>> THEN <<e>>
    ELSE IF s[Len(s)].timestamp - e.timestamp <= 0
         THEN Append(s, e)
         ELSE Append(InsertByTimestamp(e, SubSeq(s, 1, Len(s) - 1)), s[Len(s)])

\* .sort((a, b) => a.timestamp - b.timestamp): Array.prototype.sort is stable
RECURSIVE SortByTimestamp(_)
SortByTimestamp(s) ==
    IF s = <<>> THEN <<>>
    ELSE InsertByTimestamp(s[Len(s)], SortByTimestamp(SubSeq(s, 1, Len(s) - 1)))

clickEvents(evs) ==
    SortByTimestamp(SelectSeq(evs, LAMBDA e : Includes(e.event_name, "_clicked")))

\* attributedClicks.has(uid)
MapHas(map, uid) == \E i \in DOMAIN map : map[i].user_id = uid

\* users.find(u => u.user_id === uid): <<>> for undefined, <<user>> otherwise
FindUser(us, uid) ==
    IF \E i \in DOMAIN us : us[i].user_id = uid
    THEN << us[CHOOSE i \in DOMAIN us :
                  /\ us[i].user_id = uid
                  /\ \A j \in DOMAIN us : us[j].user_id = uid => i <= j] >>
    ELSE <<>>

\* { ...user, channel, timestamp }
AttributedClick(user, event) ==
    [user_id |-> user.user_id, gender |-> user.gender, age |-> user.age,
     send_country |-> user.send_country, receive_country |-> user.receive_country,
     customer_type |-> user.customer_type, device_info |-> user.device_info,
     platform_type |-> user.platform_type,
     channel |-> Capitalize(StripClicked(event.event_name)),
     timestamp |-> event.timestamp]

\* variant: the body without the attributedClicks.has test
AttributeEventNoHas(map, us, event) ==
    LET user == FindUser(us, event.user_id)
    IN  IF user # <<>> THEN Append(map, AttributedClick(user[1], event)) ELSE map

\* the body of clickEvents.forEach
AttributeEvent(map, us, event) ==
    IF ~MapHas(map, event.user_id)
    THEN LET user == FindUser(us, event.user_id)
         IN  IF user # <<>> THEN Append(map, AttributedClick(user[1], event)) ELSE map
    ELSE map

RECURSIVE AttributeAll(_, _, _)
AttributeAll(map, us, sorted) ==
    IF sorted = <<>> THEN map
    ELSE AttributeAll(AttributeEvent(map, us, Head(sorted)), us, Tail(sorted))

\* APPLY FIRST-CLICK ATTRIBUTION
attribute(evs, us) == AttributeAll(<<>>, us, clickEvents(evs))

\* one draw of the conversion loop: r is Math.random() in tenths, fv and fd the
\* floors drawn inside rand(50, 800) and rand(1000 * 60, 1000 * 60 * 60 * 24)
ConversionTenths == 4
MinVolume == 50
MaxVolume == 800
Draws ==
    {[r |-> r,
      fv |-> FloorDraw(MaxVolume - MinVolume + 1, k),
      fd |-> FloorDraw(DayMs - MinuteMs + 1, k)] : r \in {3, 4}, k \in {0, 1}}

Transaction(click, d) ==
    [user_id |-> click.user_id, channel |-> click.channel,
     trx_volume |-> rand(MinVolume, MaxVolume, d.fv),
     timestamp |-> click.timestamp + rand(MinuteMs, DayMs, d.fd)]

\* variant: a converting click pushes its transaction twice
RECURSIVE simulateTwice(_, _)
simulateTwice(clicks, draws) ==
    IF clicks = <<>> THEN <<>>
    ELSE LET rest == simulateTwice(Tail(clicks), Tail(draws))
             t == Transaction(Head(clicks), Head(draws))
         IN  IF Head(draws).r < ConversionTenths THEN <<t, t>> \o rest ELSE rest

\* SIMULATE TRANSACTIONS: draws[i] is what Math.random() gives for the i-th click
RECURSIVE simulate(_, _)
simulate(clicks, draws) ==
    IF clicks = <<>> THEN <<>>
    ELSE LET rest == simulate(Tail(clicks), Tail(draws))
         IN  IF Head(draws).r < ConversionTenths
             THEN <<Transaction(Head(clicks), Head(draws))>> \o rest
             ELSE rest

\* new Set(receivedEvents.map(e => e.user_id)).size
reached(evs) ==
    Cardinality({e.user_id :
        e \in Range(SelectSeq(evs, LAMBDA x : Includes(x.event_name, "_received")))})

----------------------------------------------------------------------------
(* The pipeline, run step by step over any Users and Events *)

\* timestamps of the generated streams
GenTimes == {5, 10}

\* the events of a stream: a user_id of Len(BaseUsers) matches no user
GenEvents ==
    {[user_id |-> u, timestamp |-> t, event_name |-> n] :
        u \in 0..Len(BaseUsers), t \in GenTimes,
        n \in {"push_received", "push_clicked", "popup_clicked", "slider_clicked"}}

WithIds(s) == [i \in DOMAIN s |->
    Event(i - 1, s[i].user_id, s[i].timestamp, s[i].event_name)]

InitGen ==
    /\ version = "index"
    /\ tz = 0
    /\ users = BaseUsers
    /\ events \in {WithIds(s) : s \in SeqsUpTo(GenEvents, MaxEvents)}
    /\ pc = "attribute"
    /\ attributedClicks = <<>>
    /\ transactions = <<>>
    /\ totalReached = 0
    /\ filters = <<>>
    /\ chartFilter = <<>>
    /\ last = [op |-> "load"]

Attribute ==
    /\ pc = "attribute"
    /\ attributedClicks' = attribute(events, users)
    /\ pc' = "simulate"
    /\ UNCHANGED <<version, tz, users, events, transactions, totalReached,
                   filters, chartFilter, last>>

Simulate ==
    /\ pc = "simulate"
    /\ \E draws \in [1..Len(attributedClicks) -> Draws] :
          transactions' = simulate(attributedClicks, draws)
    /\ pc' = "reached"
    /\ UNCHANGED <<version, tz, users, events, attributedClicks, totalReached,
                   filters, chartFilter, last>>

Reached ==
    /\ pc = "reached"
    /\ totalReached' = reached(events)
    /\ pc' = "done"
    /\ UNCHANGED <<version, tz, users, events, attributedClicks, transactions,
                   filters, chartFilter, last>>

NextGen == Attribute \/ Simulate \/ Reached

SpecGen == InitGen /\ [][NextGen]_vars

----------------------------------------------------------------------------
(* Dates *)

\* new Date(value) of a date input's value: 'YYYY-MM-DD' is midnight UTC of that day
NewDate(value) == IF value = <<>> THEN <<>> ELSE << value[1] * DayMs >>

\* date.setHours(h, m, s, ms): that time of day on the date's local calendar day
SetHours(date, h, m, s, ms) ==
    IF date = <<>> THEN <<>>
    ELSE << ((date[1] + tz) \div DayMs) * DayMs
            + h * HourMs + m * MinuteMs + s * 1000 + ms - tz >>

\* a >= b and a <= b on Date objects: false when either is the Invalid Date
DateGE(a, b) == a # <<>> /\ b # <<>> /\ a[1] >= b[1]
DateLE(a, b) == a # <<>> /\ b # <<>> /\ a[1] <= b[1]

\* formatDateForInput(date): the local calendar day of the instant
formatDateForInput(ms) == << (ms + tz) \div DayMs >>

----------------------------------------------------------------------------
(* App of src/index.tsx: filtering *)

initialClickData == attributedClicks
initialTransactions == transactions

filteredClickData ==
    LET start == NewDate(filters.startDate)
        end == SetHours(NewDate(filters.endDate), 23, 59, 59, 999)
    IN  SelectSeq(initialClickData, LAMBDA d :
            LET date == << d.timestamp >>
                countryMatch == filters.country = "all" \/ d.send_country = filters.country
                deviceMatch == filters.device = "all" \/ d.device_info = filters.device
                platformMatch == filters.platform = "all" \/ d.platform_type = filters.platform
            IN  DateGE(date, start) /\ DateLE(date, end)
                /\ countryMatch /\ deviceMatch /\ platformMatch)

\* variant: the date range is applied to the transaction's own timestamp as well
filteredTransactionsDated ==
    LET clickUserIds == {c.user_id : c \in Range(filteredClickData)}
        start == NewDate(filters.startDate)
        end == SetHours(NewDate(filters.endDate), 23, 59, 59, 999)
    IN  SelectSeq(initialTransactions, LAMBDA t :
            /\ t.user_id \in clickUserIds
            /\ DateGE(<< t.timestamp >>, start) /\ DateLE(<< t.timestamp >>, end))

\* variant: the transactions are not filtered
filteredTransactionsAll == initialTransactions

filteredTransactions ==
    LET clickUserIds == {c.user_id : c \in Range(filteredClickData)}
    IN  SelectSeq(initialTransactions, LAMBDA t : t.user_id \in clickUserIds)

----------------------------------------------------------------------------
(* App of src/index.tsx: analytics *)

\* a rate x / y * 100 as an exact fraction
Rate(x, y) == [num |-> x * 100, den |-> y]
Zero == [num |-> 0, den |-> 1]

\* variant: a key seen again is set to 1 instead of incremented
RECURSIVE reduceToFlag(_, _)
reduceToFlag(data, key) ==
    IF data = <<>> THEN <<>>
    ELSE LET acc == reduceToFlag(SubSeq(data, 1, Len(data) - 1), key)
             k == data[Len(data)][key]
         IN  acc @@ (k :> 1)

\* data.reduce((acc, curr) => { acc[curr[key]] = (acc[curr[key]] || 0) + 1 }, {}):
\* the object as a function from its keys to their counts
RECURSIVE reduceToCount(_, _)
reduceToCount(data, key) ==
    IF data = <<>> THEN <<>>
    ELSE LET acc == reduceToCount(SubSeq(data, 1, Len(data) - 1), key)
             k == data[Len(data)][key]
         IN  IF k \in DOMAIN acc THEN [acc EXCEPT ![k] = @ + 1] ELSE acc @@ (k :> 1)

AgeKeys == {"18-25", "26-35", "36-45", "46-55", "56+"}

\* variant: the chain with < in place of <=
AgeKeyStrict(age) ==
    IF age < 25 THEN "18-25"
    ELSE IF age < 35 THEN "26-35"
    ELSE IF age < 45 THEN "36-45"
    ELSE IF age < 55 THEN "46-55"
    ELSE "56+"

\* the if / else-if chain of the ageGroups loop
AgeKey(age) ==
    IF age <= 25 THEN "18-25"
    ELSE IF age <= 35 THEN "26-35"
    ELSE IF age <= 45 THEN "36-45"
    ELSE IF age <= 55 THEN "46-55"
    ELSE "56+"

RECURSIVE ageGroupsOf(_)
ageGroupsOf(data) ==
    IF data = <<>> THEN [k \in AgeKeys |-> 0]
    ELSE LET acc == ageGroupsOf(SubSeq(data, 1, Len(data) - 1))
         IN  [acc EXCEPT ![AgeKey(data[Len(data)].age)] = @ + 1]

\* Object.entries(customerTypeDistribution).reduce(... acc[capitalized key] = value ...)
customerTypeFormatted(dist) ==
    [K \in {Capitalize(k) : k \in DOMAIN dist} |->
        dist[CHOOSE k \in DOMAIN dist : Capitalize(k) = K]]

Volumes(trans) == [i \in DOMAIN trans |-> trans[i].trx_volume]

analytics ==
    LET memo(clickData, trans) ==
            LET totalClicks == Len(clickData)
                totalConversions == Len(trans)
            IN  [totalReached |-> totalReached,
                 totalClicks |-> totalClicks,
                 totalConversions |-> totalConversions,
                 conversionRate |->
                     IF totalClicks > 0 THEN Rate(totalConversions, totalClicks)
                     ELSE Zero,
                 totalVolume |-> SumSeq(Volumes(trans)),
                 channelPerformance |-> reduceToCount(clickData, "channel"),
                 genderDistribution |-> reduceToCount(clickData, "gender"),
                 customerTypeDistribution |->
                     customerTypeFormatted(reduceToCount(clickData, "customer_type")),
                 ageGroups |-> ageGroupsOf(clickData)]
    \* the callback reads the values of its two dependencies
    IN  CHOOSE a \in {memo(clickData, trans) : clickData \in {filteredClickData},
                                              trans \in {filteredTransactions}} : TRUE

----------------------------------------------------------------------------
(* App of src/index.tsx: drill-down *)

\* value.split(/[-+]/) on the keys of ageGroups
SplitAge(value) ==
    CASE value = "18-25" -> <<"18", "25">>
      [] value = "26-35" -> <<"26", "35">>
      [] value = "36-45" -> <<"36", "45">>
      [] value = "46-55" -> <<"46", "55">>
      [] value = "56+" -> <<"56", "">>
      [] OTHER -> <<value, "">>

\* parseInt(s, 10) on the pieces of those keys
ParseInt(s) ==
    CASE s = "18" -> 18 [] s = "25" -> 25 [] s = "26" -> 26 [] s = "35" -> 35
      [] s = "36" -> 36 [] s = "45" -> 45 [] s = "46" -> 46 [] s = "55" -> 55
      [] s = "56" -> 56

tableFor(cf, data) ==
    IF cf = <<>> THEN data
    ELSE LET category == cf[1].category
             value == cf[1].value
         IN  IF category = "customer_type"
             THEN SelectSeq(data, LAMBDA d :
                      ToLowerCase(d.customer_type) = ToLowerCase(value))
             ELSE IF category = "age"
             THEN LET min == SplitAge(value)[1]
                      maxStr == SplitAge(value)[2]
                  IN  SelectSeq(data, LAMBDA d :
                          /\ d.age >= ParseInt(min)
                          \* max = maxStr ? parseInt(maxStr, 10) : Infinity
                          /\ (maxStr = "" \/ d.age <= ParseInt(maxStr)))
             ELSE SelectSeq(data, LAMBDA d : d[category] = value)

filteredTableData == tableFor(chartFilter, filteredClickData)

\* the segments the four bar charts show: dataKey and key of each bar
Segments ==
    LET a == analytics
    IN  {[category |-> "channel", value |-> k] : k \in DOMAIN a.channelPerformance}
        \cup {[category |-> "gender", value |-> k] : k \in DOMAIN a.genderDistribution}
        \cup {[category |-> "age", value |-> k] : k \in DOMAIN a.ageGroups}
        \cup {[category |-> "customer_type", value |-> k] :
                 k \in DOMAIN a.customerTypeDistribution}

----------------------------------------------------------------------------
(* App of src/index.tsx: handlers *)

\* the values a date input can hand over: empty, or a day of the window
DateInputs == {<<>>} \cup {<<d>> : d \in 0..(NumDays - 1)}

uniqueCountries == {"all"} \cup {d.send_country : d \in Range(initialClickData)}
uniqueDevices == {"all"} \cup {d.device_info : d \in Range(initialClickData)}
uniquePlatforms == {"all"} \cup {d.platform_type : d \in Range(initialClickData)}

\* what each named control of the filter bar can send
Options(name) ==
    CASE name \in {"startDate", "endDate"} -> DateInputs
      [] name = "country" -> uniqueCountries
      [] name = "device" -> uniqueDevices
      [] name = "platform" -> uniquePlatforms

\* variant: the chart filter is kept when a main filter changes
handleFilterChangeKeep(name, value) ==
    /\ pc = "app" /\ version = "index"
    /\ filters' = [filters EXCEPT ![name] = value]
    /\ last' = [op |-> "filter", had |-> chartFilter # <<>>]
    /\ UNCHANGED <<version, tz, users, events, pc, attributedClicks, transactions,
                   totalReached, chartFilter>>

handleFilterChange(name, value) ==
    /\ pc = "app" /\ version = "index"
    /\ filters' = [filters EXCEPT ![name] = value]
    /\ chartFilter' = <<>>
    /\ last' = [op |-> "filter", had |-> chartFilter # <<>>]
    /\ UNCHANGED <<version, tz, users, events, pc, attributedClicks, transactions,
                   totalReached>>

\* variant: a click always selects the segment
handleBarClickSelect(category, value) ==
    /\ pc = "app" /\ version = "index"
    /\ chartFilter' = << [category |-> category, value |-> value] >>
    /\ last' = [op |-> "bar", category |-> category, value |-> value,
                n |-> IF last.op = "bar" /\ last.category = category
                         /\ last.value = value /\ last.n = 1
                      THEN 2 ELSE 1]
    /\ UNCHANGED <<version, tz, users, events, pc, attributedClicks, transactions,
                   totalReached, filters>>

\* variant: a click also resets the country filter
handleBarClickReset(category, value) ==
    /\ pc = "app" /\ version = "index"
    /\ IF chartFilter # <<>> /\ chartFilter[1].category = category
          /\ chartFilter[1].value = value
       THEN chartFilter' = <<>>
       ELSE chartFilter' = << [category |-> category, value |-> value] >>
    /\ last' = [op |-> "bar", category |-> category, value |-> value,
                n |-> IF last.op = "bar" /\ last.category = category
                         /\ last.value = value /\ last.n = 1
                      THEN 2 ELSE 1]
    /\ filters' = [filters EXCEPT !.country = "all"]
    /\ UNCHANGED <<version, tz, users, events, pc, attributedClicks, transactions,
                   totalReached>>

handleBarClick(category, value) ==
    /\ pc = "app" /\ version = "index"
    /\ IF chartFilter # <<>> /\ chartFilter[1].category = category
          /\ chartFilter[1].value = value
       THEN chartFilter' = <<>>
       ELSE chartFilter' = << [category |-> category, value |-> value] >>
    /\ last' = [op |-> "bar", category |-> category, value |-> value,
                n |-> IF last.op = "bar" /\ last.category = category
                         /\ last.value = value /\ last.n = 1
                      THEN 2 ELSE 1]
    /\ UNCHANGED <<version, tz, users, events, pc, attributedClicks, transactions,
                   totalReached, filters>>

handleClearChartFilter ==
    /\ pc = "app" /\ version = "index"
    \* the Clear button is rendered only while activeFilter is set
    /\ chartFilter # <<>>
    /\ chartFilter' = <<>>
    /\ last' = [op |-> "clear"]
    /\ UNCHANGED <<version, tz, users, events, pc, attributedClicks, transactions,
                   totalReached, filters>>

FilterChange ==
    \E name \in {"startDate", "endDate", "country", "device", "platform"} :
        \E value \in Options(name) : handleFilterChange(name, value)

\* the charts are rendered by the App of src/index.tsx only
BarClick ==
    /\ version = "index"
    /\ \E seg \in Segments : handleBarClick(seg.category, seg.value)

----------------------------------------------------------------------------
(* App of src/unnamed/part_000 *)

filteredData ==
    SelectSeq(attributedClicks, LAMBDA d :
        /\ (filters.sendCountry = "all" \/ d.send_country = filters.sendCountry)
        /\ (filters.customerType = "all" \/ d.customer_type = filters.customerType))

filteredTransactionsP0 ==
    IF Len(filteredData) = 0 \/ Len(transactions) = 0 THEN <<>>
    ELSE LET filteredUserIds == {d.user_id : d \in Range(filteredData)}
         IN  SelectSeq(transactions, LAMBDA t : t.user_id \in filteredUserIds)

\* the reduce of transactionVolume: per channel, the sum of trx_volume
RECURSIVE sumByChannel(_)
sumByChannel(trans) ==
    IF trans = <<>> THEN <<>>
    ELSE LET acc == sumByChannel(SubSeq(trans, 1, Len(trans) - 1))
             curr == trans[Len(trans)]
         IN  IF curr.channel \in DOMAIN acc
             THEN [acc EXCEPT ![curr.channel] = @ + curr.trx_volume]
             ELSE acc @@ (curr.channel :> curr.trx_volume)

analyticsP0 ==
    [channel |-> reduceToCount(filteredData, "channel"),
     device |-> reduceToCount(filteredData, "device_info"),
     customerType |-> reduceToCount(filteredData, "customer_type"),
     sendCountry |-> reduceToCount(filteredData, "send_country"),
     gender |-> reduceToCount(filteredData, "gender"),
     transactionVolume |-> sumByChannel(filteredTransactionsP0),
     conversions |-> reduceToCount(filteredTransactionsP0, "channel")]

totalClicksP0 == Len(filteredData)

clickThroughRate ==
    IF totalReached > 0 THEN Rate(totalClicksP0, totalReached) ELSE Zero

uniqueCustomerTypes == {"all"} \cup {d.customer_type : d \in Range(attributedClicks)}

OptionsP0(name) ==
    CASE name = "sendCountry" -> uniqueCountries
      [] name = "customerType" -> uniqueCustomerTypes

handleFilterChangeP0(name, value) ==
    /\ pc = "app" /\ version = "part_000"
    /\ filters' = [filters EXCEPT ![name] = value]
    /\ UNCHANGED <<version, tz, users, events, pc, attributedClicks, transactions,
                   totalReached, chartFilter, last>>

FilterChangeP0 ==
    \E name \in {"sendCountry", "customerType"} :
        \E value \in OptionsP0(name) : handleFilterChangeP0(name, value)

----------------------------------------------------------------------------
(* The loaded module: generateMockData has run, App is mounted *)

generateMockData(us, evs, draws) ==
    LET clicks == attribute(evs, us)
    IN  [clickData |-> clicks,
         transactions |-> simulate(clicks, draws),
         totalReached |-> reached(evs)]

\* click times: midnight, noon and the last millisecond of each day (UTC)
AppTimes ==
    {d * DayMs + o : d \in 0..(NumDays - 1), o \in {0, DayMs \div 2, DayMs - 1}}

Noon(d) == d * DayMs + DayMs \div 2

\* one click per user, user 0's at time t, and user 0 reached
BaseEvents(t) ==
    << Event(0, 0, t, "push_clicked"),
       Event(1, 1, Noon(NumDays - 1), "popup_clicked"),
       Event(2, 0, 0, "slider_received") >>

BaseDraws == [i \in 1..2 |-> [r |-> 3, fv |-> 0, fd |-> 0]]

\* short streams over both users, as the event loop draws them
AppEvents ==
    {[user_id |-> u, timestamp |-> Noon(0), event_name |-> n] :
        u \in 0..(Len(BaseUsers) - 1), n \in {"push_clicked", "push_received"}}

\* the inputs the module is loaded with: each family varies one of the user
\* attributes, the click time and time zone, the event stream, the random draws
Scenarios ==
    {[users |-> us, events |-> BaseEvents(Noon(0)), draws |-> BaseDraws, tz |-> 0] :
        us \in UserTables}
    \cup {[users |-> BaseUsers, events |-> BaseEvents(t), draws |-> BaseDraws,
           tz |-> z] : t \in AppTimes, z \in TzOffsets}
    \cup {[users |-> BaseUsers, events |-> WithIds(s), draws |-> BaseDraws, tz |-> 0] :
           s \in SeqsUpTo(AppEvents, 2)}
    \cup {[users |-> BaseUsers, events |-> BaseEvents(Noon(0)), draws |-> ds,
           tz |-> 0] : ds \in [1..2 -> Draws]}

initialFilters(v) ==
    IF v = "index"
    THEN [startDate |-> formatDateForInput(MOCK_CONFIG.startDate),
          endDate |-> formatDateForInput(MOCK_CONFIG.endDate),
          country |-> "all", device |-> "all", platform |-> "all"]
    ELSE [sendCountry |-> "all", customerType |-> "all"]

Init ==
    \E sc \in Scenarios, v \in {"index", "part_000"} :
        LET data == generateMockData(sc.users, sc.events, sc.draws)
        IN  /\ version = v
            /\ tz = sc.tz
            /\ users = sc.users
            /\ events = sc.events
            /\ pc = "app"
            /\ attributedClicks = data.clickData
            /\ transactions = data.transactions
            /\ totalReached = data.totalReached
            /\ filters = initialFilters(v)
            /\ chartFilter = <<>>
            /\ last = [op |-> "load"]

Next ==
    \/ FilterChange
    \/ BarClick
    \/ handleClearChartFilter
    \/ FilterChangeP0

Spec == Init /\ [][Next]_vars

----------------------------------------------------------------------------
(* Properties of the pipeline (under SpecGen) *)

\* the channel an event name stands for
ChannelOfName(name) ==
    CASE name = "push_clicked" -> "Push"
      [] name = "popup_clicked" -> "Popup"
      [] name = "slider_clicked" -> "Slider"

\* the positions in events of uid's click events
ClicksOf(uid) ==
    {i \in DOMAIN events :
        events[i].user_id = uid /\ events[i].event_name \in ClickedNames}

\* i is uid's first touch: no click of uid is earlier, and none of the same
\* timestamp comes before it in the original order
IsFirstTouch(uid, i) ==
    /\ i \in ClicksOf(uid)
    /\ \A j \in ClicksOf(uid) :
          \/ events[i].timestamp < events[j].timestamp
          \/ (events[i].timestamp = events[j].timestamp /\ i <= j)

Attributed == pc \in {"simulate", "reached", "done"}

\* C1: every attributed click carries the minimum timestamp over its user's
\* click events and the capitalized channel of the earliest of them, the first
\* in the original order among those of minimum timestamp.
C1_FirstTouch ==
    Attributed =>
        \A k \in DOMAIN attributedClicks :
            \E i \in DOMAIN events :
                /\ IsFirstTouch(attributedClicks[k].user_id, i)
                /\ attributedClicks[k].timestamp = events[i].timestamp
                /\ attributedClicks[k].channel = ChannelOfName(events[i].event_name)

\* a user whose later click comes first in the stream and whose two earliest
\* clicks share the minimum timestamp on different channels
C1_Witness ==
    /\ pc = "done"
    /\ Len(events) = 3
    /\ \A i \in 1..3 : events[i].user_id = 0 /\ events[i].event_name \in ClickedNames
    /\ events[1].timestamp > events[2].timestamp
    /\ events[2].timestamp = events[3].timestamp
    /\ events[2].event_name # events[3].event_name
    /\ Len(attributedClicks) = 1
    /\ attributedClicks[1].channel = ChannelOfName(events[2].event_name)

UserIds == {users[i].user_id : i \in DOMAIN users}

\* the number of attributed clicks of a user_id
ClickCount(uid) ==
    Cardinality({k \in DOMAIN attributedClicks : attributedClicks[k].user_id = uid})

\* C2: a user_id has an attributed click iff it is a user's and has a click
\* event, and then exactly one; click events of unknown users are skipped and
\* do not keep the other users from being attributed.
C2_OnePerClickingUser ==
    Attributed =>
        \A uid \in UserIds \cup {e.user_id : e \in Range(events)} :
            ClickCount(uid) = IF uid \in UserIds /\ ClicksOf(uid) # {} THEN 1 ELSE 0

\* the earliest click is of an unknown user, a later one of a user with two clicks
C2_Witness ==
    /\ pc = "done"
    /\ Len(events) = 3
    /\ events[1].user_id \notin UserIds /\ events[1].event_name \in ClickedNames
    /\ events[1].timestamp < events[2].timestamp
    /\ events[2].user_id = 1 /\ events[3].user_id = 1
    /\ events[2].event_name \in ClickedNames /\ events[3].event_name \in ClickedNames
    /\ Len(attributedClicks) = 1
    /\ attributedClicks[1].user_id = 1

Simulated == pc \in {"reached", "done"}

\* C3: at most one transaction per attributed click: no more transactions than
\* clicks, no two of one user_id, each of the user_id of an attributed click.
C3_Conservation ==
    Simulated =>
        /\ Len(transactions) <= Len(attributedClicks)
        /\ \A i, j \in DOMAIN transactions :
              transactions[i].user_id = transactions[j].user_id => i = j
        /\ \A i \in DOMAIN transactions : ClickCount(transactions[i].user_id) = 1

\* two clicks, of which the second alone converted
C3_Witness ==
    /\ pc = "done"
    /\ Len(attributedClicks) = 2
    /\ Len(transactions) = 1
    /\ transactions[1].user_id = attributedClicks[2].user_id

----------------------------------------------------------------------------
(* Properties of the dashboards (under Spec) *)

Index == pc = "app" /\ version = "index"
Part000 == pc = "app" /\ version = "part_000"

\* the transaction t is in the list kept
Kept(kept, t) == \E j \in DOMAIN kept : kept[j] = t

\* the user of transaction t has a click in the list clicks
UserIn(clicks, t) == \E k \in DOMAIN clicks : clicks[k].user_id = t.user_id

\* the last instant of the selected date range, <<>> without a valid end date
RangeEnd == SetHours(NewDate(filters.endDate), 23, 59, 59, 999)

\* C4: in both builds a transaction is in the filtered transactions iff its
\* user_id is that of a filtered click, whatever its own timestamp.
C4_TransitiveFilter ==
    /\ Index =>
          /\ \A i \in DOMAIN transactions :
                Kept(filteredTransactions, transactions[i])
                    <=> UserIn(filteredClickData, transactions[i])
          /\ Range(filteredTransactions) \subseteq Range(transactions)
    /\ Part000 =>
          /\ \A i \in DOMAIN transactions :
                Kept(filteredTransactionsP0, transactions[i])
                    <=> UserIn(filteredData, transactions[i])
          /\ Range(filteredTransactionsP0) \subseteq Range(transactions)

\* a date range was set, one transaction is kept although it happened after the
\* range ended, another is dropped with its click
C4_Witness ==
    /\ Index
    /\ last.op = "filter"
    /\ RangeEnd # <<>>
    /\ \E i \in DOMAIN transactions :
          /\ Kept(filteredTransactions, transactions[i])
          /\ transactions[i].timestamp > RangeEnd[1]
    /\ \E i \in DOMAIN transactions : ~Kept(filteredTransactions, transactions[i])

InPercentRange(rate) == rate.den > 0 /\ 0 <= rate.num /\ rate.num <= 100 * rate.den

\* C5: the click-through rate of part_000 lies in [0, 100] in every filter
\* state, and is 0 when nobody was reached.
C5_ClickThroughRateInRange ==
    Part000 =>
        /\ InPercentRange(clickThroughRate)
        /\ (totalReached = 0 => clickThroughRate.num = 0)

\* C6: the conversion rate is conversions / clicks * 100 within [0, 100], and
\* with no filtered click the rate, the volume and the conversions are all 0.
C6_ConversionRateInRange ==
    Index =>
        LET a == analytics
        IN  /\ InPercentRange(a.conversionRate)
            /\ a.conversionRate.num * a.totalClicks
                   = a.totalConversions * 100 * a.conversionRate.den
            /\ a.totalConversions <= a.totalClicks
            /\ (filteredClickData = <<>> =>
                   /\ a.conversionRate.num = 0
                   /\ a.totalVolume = 0
                   /\ a.totalConversions = 0)

\* a filter change emptied the click list of a dataset that has transactions
C6_Witness ==
    /\ Index
    /\ last.op = "filter"
    /\ filteredClickData = <<>>
    /\ transactions # <<>>

\* the clicks that pass the country, device and platform criteria alone
CategoricalOnly ==
    SelectSeq(attributedClicks, LAMBDA d :
        /\ (filters.country = "all" \/ d.send_country = filters.country)
        /\ (filters.device = "all" \/ d.device_info = filters.device)
        /\ (filters.platform = "all" \/ d.platform_type = filters.platform))

\* C7: with an empty or unparseable start or end date the filtered clicks are
\* those of the categorical criteria alone.
C7_InvalidDateNoConstraint ==
    (Index /\ (filters.startDate = <<>> \/ filters.endDate = <<>>)) =>
        filteredClickData = CategoricalOnly

Segment(category, value) == [category |-> category, value |-> value]

\* C8: a click on a segment clears the drill-down when that segment is the
\* active one and selects it otherwise; after a second click in a row on the
\* same segment no drill-down is active and the table is the filtered clicks.
C8_Toggle ==
    /\ [][Index =>
            \A seg \in Segments :
                handleBarClick(seg.category, seg.value) =>
                    chartFilter' = IF chartFilter = <<seg>> THEN <<>> ELSE <<seg>>]_vars
    /\ [](Index /\ last.op = "bar" =>
            IF last.n = 2
            THEN chartFilter = <<>> /\ filteredTableData = filteredClickData
            ELSE chartFilter = << Segment(last.category, last.value) >>)

\* the second click in a row on a segment that had narrowed the table
C8_Witness ==
    /\ Index
    /\ last.op = "bar" /\ last.n = 2
    /\ chartFilter = <<>>
    /\ tableFor(<< Segment(last.category, last.value) >>, filteredClickData)
           # filteredClickData

\* C9: a change of a main filter leaves no drill-down active, so an active
\* drill-down was always selected after the last main-filter change.
C9_FilterChangeClears ==
    /\ [][Index /\ (filters' # filters \/ (last' # last /\ last'.op = "filter"))
            => chartFilter' = <<>>]_vars
    /\ [](Index /\ chartFilter # <<>> => last.op = "bar")

\* a main filter was changed while a drill-down was active
C9_Witness ==
    /\ Index
    /\ last.op = "filter" /\ last.had
    /\ chartFilter = <<>>

\* the ages of each bucket
BucketAges(key) ==
    CASE key = "18-25" -> 18..25
      [] key = "26-35" -> 26..35
      [] key = "36-45" -> 36..45
      [] key = "46-55" -> 46..55
      [] key = "56+" -> 56..65

\* C10: each filtered click of age 18..65 is counted in exactly the bucket of
\* its age, boundary ages in the lower one, and the counts sum to totalClicks.
C10_AgeBuckets ==
    Index =>
        LET a == analytics
        IN  /\ DOMAIN a.ageGroups = AgeKeys
            /\ \A key \in AgeKeys :
                  a.ageGroups[key] =
                      Cardinality({i \in DOMAIN filteredClickData :
                                      filteredClickData[i].age \in BucketAges(key)})
            /\ a.ageGroups["18-25"] + a.ageGroups["26-35"] + a.ageGroups["36-45"]
                   + a.ageGroups["46-55"] + a.ageGroups["56+"] = a.totalClicks
            /\ \A age \in 18..65 : age \in BucketAges(AgeKey(age))

\* after a filter change, clicks of the boundary ages 46 and 55 are both
\* counted in 46-55
C10_Witness ==
    /\ Index
    /\ last.op = "filter"
    /\ \E i, j \in DOMAIN filteredClickData :
          filteredClickData[i].age = 46 /\ filteredClickData[j].age = 55
    /\ analytics.ageGroups["46-55"] = 2
    /\ analytics.ageGroups["56+"] = 0

----------------------------------------------------------------------------
(* The date range *)

\* first and last instant of day d in the calendar that runs off ms ahead of UTC
DayStart(d, off) == d * DayMs - off
DayEnd(d, off) == d * DayMs + (DayMs - 1) - off

\* the clicks within the selected days of that calendar that also pass the
\* categorical criteria
InDateRange(off) ==
    SelectSeq(CategoricalOnly, LAMBDA d :
        /\ d.timestamp >= DayStart(filters.startDate[1], off)
        /\ d.timestamp <= DayEnd(filters.endDate[1], off))

\* C11: with valid dates the filtered clicks are those from the first instant
\* of the start date to 23:59:59.999 of the end date, both in one calendar (UTC
\* or local time), that also pass the categorical criteria.
C11_DateRangeBounds ==
    (Index /\ filters.startDate # <<>> /\ filters.endDate # <<>>) =>
        \E off \in {0, tz} : filteredClickData = InDateRange(off)


----------------------------------------------------------------------------
(* The delay of a transaction *)
\* timestamp of the attributed click of user uid
ClickTime(uid) ==
    (CHOOSE c \in Range(attributedClicks) : c.user_id = uid).timestamp

Delay(t) == t.timestamp - ClickTime(t.user_id)

\* C12: every transaction is later than the attributed click of its user_id,
\* by at least one minute and at most 24 hours, whatever the draws.
C12_TimestampBound ==
    Simulated =>
        \A i \in DOMAIN transactions :
            /\ ClickCount(transactions[i].user_id) = 1
            /\ transactions[i].timestamp > ClickTime(transactions[i].user_id)
            /\ Delay(transactions[i]) >= 1000 * 60
            /\ Delay(transactions[i]) <= 1000 * 60 * 60 * 24

\* both ends of the delay range are drawn
C12_Witness ==
    /\ pc = "done"
    /\ \E i, j \in DOMAIN transactions :
          /\ Delay(transactions[i]) = 1000 * 60
          /\ Delay(transactions[j]) = 1000 * 60 * 60 * 24


----------------------------------------------------------------------------
(* Grouped counts *)

\* the sum of the values of a mapping
RECURSIVE SumOf(_)
SumOf(m) ==
    IF DOMAIN m = {} THEN 0
    ELSE LET k == CHOOSE x \in DOMAIN m : TRUE
         IN  m[k] + SumOf([x \in DOMAIN m \ {k} |-> m[x]])

\* m maps each value of field key in data to the number of its elements
CountsOf(m, data, key) ==
    /\ DOMAIN m = {data[i][key] : i \in DOMAIN data}
    /\ \A k \in DOMAIN m :
          /\ m[k] = Cardinality({i \in DOMAIN data : data[i][key] = k})
          /\ m[k] >= 1
    /\ SumOf(m) = Len(data)

\* C13: in every filter state each grouped mapping has the distinct values of
\* its dimension among the filtered clicks as keys, each with the number of
\* filtered clicks of that value (at least 1), summing to the filtered click
\* count; the conversions per channel do so over the filtered transactions.
C13_GroupedCounts ==
    /\ Index =>
          /\ CountsOf(reduceToCount(filteredClickData, "channel"),
                      filteredClickData, "channel")
          /\ CountsOf(reduceToCount(filteredClickData, "gender"),
                      filteredClickData, "gender")
          /\ CountsOf(reduceToCount(filteredClickData, "customer_type"),
                      filteredClickData, "customer_type")
          /\ analytics.channelPerformance = reduceToCount(filteredClickData, "channel")
          /\ analytics.genderDistribution = reduceToCount(filteredClickData, "gender")
    /\ Part000 =>
          /\ CountsOf(analyticsP0.channel, filteredData, "channel")
          /\ CountsOf(analyticsP0.gender, filteredData, "gender")
          /\ CountsOf(analyticsP0.customerType, filteredData, "customer_type")
          /\ CountsOf(analyticsP0.sendCountry, filteredData, "send_country")
          /\ CountsOf(analyticsP0.device, filteredData, "device_info")
          /\ CountsOf(analyticsP0.conversions, filteredTransactionsP0, "channel")

\* under a customer type filter two filtered clicks share one device and
\* differ in gender and in channel, and both have converted
C13_Witness ==
    /\ Part000
    /\ filters.customerType # "all"
    /\ Len(filteredData) = 2
    /\ \E k \in DOMAIN analyticsP0.device : analyticsP0.device[k] = 2
    /\ Cardinality(DOMAIN analyticsP0.gender) = 2
    /\ Cardinality(DOMAIN analyticsP0.channel) = 2
    /\ Len(filteredTransactionsP0) = 2
    /\ Cardinality(DOMAIN analyticsP0.conversions) = 2


----------------------------------------------------------------------------
(* Drill-down and chart *)

\* the chart's count for a segment
CountOf(seg) ==
    CASE seg.category = "channel" -> analytics.channelPerformance[seg.value]
      [] seg.category = "gender" -> analytics.genderDistribution[seg.value]
      [] seg.category = "age" -> analytics.ageGroups[seg.value]
      [] seg.category = "customer_type" -> analytics.customerTypeDistribution[seg.value]

\* the filtered clicks the chart counts in a segment
CountedIn(seg) ==
    SelectSeq(filteredClickData, LAMBDA d :
        CASE seg.category = "channel" -> d.channel = seg.value
          [] seg.category = "gender" -> d.gender = seg.value
          [] seg.category = "age" -> AgeKey(d.age) = seg.value
          [] seg.category = "customer_type" -> Capitalize(d.customer_type) = seg.value)

\* C14: for every segment a chart shows, with count n, the table of a
\* drill-down on it holds exactly the n filtered clicks counted in it, and
\* after a click that selects a segment the table shown is that table.
C14_DrillDownAgrees ==
    Index =>
        /\ \A d \in Range(filteredClickData) : d.age \in 18..65
        /\ \A seg \in Segments :
              /\ tableFor(<<seg>>, filteredClickData) = CountedIn(seg)
              /\ Len(tableFor(<<seg>>, filteredClickData)) = CountOf(seg)
        /\ (last.op = "bar" /\ last.n = 1) =>
              /\ filteredTableData = CountedIn(Segment(last.category, last.value))
              /\ Len(filteredTableData) = CountOf(Segment(last.category, last.value))

\* after a click on 56+ the table holds the clicks of ages 56 and 65, and the
\* chart shows a capitalized customer type
C14_Witness ==
    /\ Index
    /\ last.op = "bar" /\ last.n = 1
    /\ chartFilter = << Segment("age", "56+") >>
    /\ Len(filteredTableData) = 2
    /\ {d.age : d \in Range(filteredTableData)} = {56, 65}
    /\ Segment("customer_type", "Active") \in Segments


----------------------------------------------------------------------------
(* The frame of a drill-down *)

\* a click on a chart segment or on the Clear button
DrillDownStep ==
    \/ \E seg \in Segments : handleBarClick(seg.category, seg.value)
    \/ handleClearChartFilter

\* C15: selecting, toggling or clearing a drill-down leaves the main filters,
\* the filtered clicks, the filtered transactions and every KPI and grouped
\* count as they were; the table rows are always among the filtered clicks,
\* and are the filtered clicks when no drill-down is active.
C15_DrillDownFrame ==
    /\ [][Index /\ DrillDownStep =>
            /\ filters' = filters
            /\ filteredClickData' = filteredClickData
            /\ filteredTransactions' = filteredTransactions
            /\ analytics' = analytics
            /\ UNCHANGED <<users, attributedClicks, transactions, totalReached>>]_vars
    /\ [](Index =>
            /\ Range(filteredTableData) \subseteq Range(filteredClickData)
            /\ Len(filteredTableData) <= Len(filteredClickData)
            /\ chartFilter = <<>> => filteredTableData = filteredClickData)

\* under a country filter a click on a segment has narrowed the table to one
\* of two filtered clicks
C15_Witness ==
    /\ Index
    /\ filters.country # "all"
    /\ last.op = "bar" /\ last.n = 1
    /\ chartFilter # <<>>
    /\ Len(filteredClickData) = 2
    /\ Len(filteredTableData) = 1

====
